---------------------------- MODULE Spec2Model ----------------------------
(***************************************************************************)
(* The frame decoder of cdrs, src/frame/parser.rs: parse_frame reads one   *)
(* frame from a connection's byte source (a RefCell<dyn Read>), decodes    *)
(* the body through the compression strategy, strips the optional          *)
(* sections from the front of the body and converts an Error frame into a  *)
(* failure.  The wire readers (read_short, read_int, ...) are operators    *)
(* over a buffer and a cursor position.                                    *)
(*                                                                         *)
(* Bytes are the integers 0..255.  Option values are sequences: None is    *)
(* << >>, Some(x) is <<x>>.  A HashMap is a set of <<key, value>> pairs    *)
(* with unique keys.  A String is its sequence of (validated) bytes.       *)
(***************************************************************************)
EXTENDS Integers, Sequences, FiniteSets, TLC

\* Number of parse_frame calls made on the connection.
MaxCalls == 2
\* Number of frames the peer writes back to back on the connection.
MaxFrames == 2

None == << >>
Some(x) == <<x>>

-----------------------------------------------------------------------------
(* Sizes of the header fields and of the tracing id.                       *)

VERSION_LEN == 1
FLAG_LEN == 1
OPCODE_LEN == 1
STREAM_LEN == 2
LENGTH_LEN == 4
UUID_LEN == 16

\* Opcode::Error, the opcode byte of an ERROR message.
OPCODE_ERROR == 0

-----------------------------------------------------------------------------
(* Big-endian integers.                                                    *)

\* The unsigned big-endian value of at most three bytes.
RECURSIVE be_value(_)
be_value(bytes) ==
    IF bytes = << >> THEN 0
    ELSE be_value(SubSeq(bytes, 1, Len(bytes) - 1)) * 256 + bytes[Len(bytes)]

\* types::from_bytes on a slice of two to four bytes: the unsigned
\* big-endian value.  The value may exceed the 32-bit signed integers of
\* TLC, so it is kept as its two 16-bit halves: hi * 65536 + lo.
from_bytes(bytes) ==
    [hi |-> be_value(SubSeq(bytes, 1, Len(bytes) - 2)),
     lo |-> be_value(SubSeq(bytes, Len(bytes) - 1, Len(bytes)))]

\* An unsigned value below 2^31 as an integer.
u_to_int(u) == u.hi * 65536 + u.lo
\* The sign bit of the 32-bit value: set when the value, read as a signed
\* 32-bit integer, is negative.
u_sign_bit(u) == u.hi >= 32768
\* u <= n, for an integer n.
u_le(u, n) == ~u_sign_bit(u) /\ u_to_int(u) <= n

\* types::from_u16_bytes: the unsigned big-endian value of two bytes.
from_u16_bytes(bytes) == bytes[1] * 256 + bytes[2]

\* i32::from_be_bytes: two's complement, 32 bits.
i32_from_be_bytes(bytes) ==
    (IF bytes[1] >= 128 THEN bytes[1] - 256 ELSE bytes[1]) * 16777216
    + be_value(SubSeq(bytes, 2, 4))

\* u16::from_be_bytes.
u16_from_be_bytes(bytes) == bytes[1] * 256 + bytes[2]

\* std::str::from_utf8 on the byte strings of this model: ASCII bytes are
\* valid, the byte 0xFF (valid nowhere in UTF-8) is not.
utf8_valid(raw) == \A i \in 1..Len(raw) : raw[i] < 128

-----------------------------------------------------------------------------
(* The wire readers over body_cursor: Cursor<&[u8]> is the pair (buf, cur). *)
(* Each returns [st, val, cur, why]: st = "ok" with the value and the new  *)
(* cursor, or st = "panic" where the code unwraps a failure.               *)

Ok(v, cur) == [st |-> "ok", val |-> v, cur |-> cur, why |-> ""]
Panic(v, cur, why) == [st |-> "panic", val |-> v, cur |-> cur, why |-> why]

\* What Cursor::read_exact leaves in the cursor when n bytes are wanted.
remaining(buf, cur) == Len(buf) - cur

read_int(buf, cur) ==
    IF remaining(buf, cur) < 4
    THEN Panic(0, Len(buf), "UnexpectedEof")
    ELSE Ok(i32_from_be_bytes(SubSeq(buf, cur + 1, cur + 4)), cur + 4)

read_int_length(buf, cur) ==
    LET r == read_int(buf, cur)
    IN  IF r.st # "ok" THEN r
        ELSE IF r.val < 0 THEN Panic(0, r.cur, "TryFromIntError")
        ELSE r

read_raw_bytes(count, buf, cur) ==
    IF remaining(buf, cur) < count
    THEN Panic(<< >>, Len(buf), "UnexpectedEof")
    ELSE Ok(SubSeq(buf, cur + 1, cur + count), cur + count)

read_bytes(buf, cur) ==
    LET len == read_int_length(buf, cur)
    IN  IF len.st # "ok" THEN Panic(<< >>, len.cur, len.why)
        ELSE read_raw_bytes(len.val, buf, len.cur)

read_short(buf, cur) ==
    IF remaining(buf, cur) < 2
    THEN Panic(0, Len(buf), "UnexpectedEof")
    ELSE Ok(u16_from_be_bytes(SubSeq(buf, cur + 1, cur + 2)), cur + 2)

read_short_length(buf, cur) == read_short(buf, cur)

read_string(buf, cur) ==
    LET len == read_short_length(buf, cur)
    IN  IF len.st # "ok" THEN Panic(<< >>, len.cur, len.why)
        ELSE LET raw == read_raw_bytes(len.val, buf, len.cur)
             IN  IF raw.st # "ok" THEN raw
                 ELSE IF ~utf8_valid(raw.val)
                      THEN Panic(<< >>, raw.cur, "Utf8Error")
                      ELSE raw

\* HashMap::insert: the last write of a key wins.
map_insert(m, key, val) == {p \in m : p[1] # key} \cup {<<key, val>>}

\* The loop of read_bytes_map: n entries still to read into v.
RECURSIVE read_bytes_map_loop(_, _, _, _)
read_bytes_map_loop(n, buf, cur, v) ==
    IF n = 0 THEN Ok(v, cur)
    ELSE LET key == read_string(buf, cur)
         IN  IF key.st # "ok" THEN Panic({}, key.cur, key.why)
             ELSE LET val == read_bytes(buf, key.cur)
                  IN  IF val.st # "ok" THEN Panic({}, val.cur, val.why)
                      ELSE read_bytes_map_loop(n - 1, buf, val.cur,
                                               map_insert(v, key.val, val.val))

read_bytes_map(buf, cur) ==
    LET len == read_short_length(buf, cur)
    IN  IF len.st # "ok" THEN Panic({}, len.cur, len.why)
        ELSE read_bytes_map_loop(len.val, buf, len.cur, {})

-----------------------------------------------------------------------------
(* Collaborators of parse_frame that live in other modules of the crate.   *)

Flags == {"Compression", "Tracing", "CustomPayload", "Warning"}

\* The bit of each flag in the flags byte (a protocol constant).
flag_bit(flag) ==
    CASE flag = "Compression" -> 1
      [] flag = "Tracing" -> 2
      [] flag = "CustomPayload" -> 4
      [] flag = "Warning" -> 8

has_bit(byte, bit) == (byte \div bit) % 2 = 1

\* Flag::get_collection: the recognised flags whose bit is set; any other
\* bit is ignored.
get_collection(byte) == {flag \in Flags : has_bit(byte, flag_bit(flag))}

\* Version::from and Opcode::from keep the byte they decode.
version_from(bytes) == bytes[1]
opcode_from(byte) == byte

Compressions == {"None", "Lz4", "Snappy"}

\* The byte a compressed body starts with in this model's codec.
codec_tag(c) == IF c = "Lz4" THEN 76 ELSE 83

\* Compression::decode.  None is the identity.  The other two strategies
\* are modelled by one codec each: a compressed body is the strategy's tag,
\* the length of the content, and the content; anything else is malformed.
compression_decode(c, bytes) ==
    IF c = "None" THEN [st |-> "ok", val |-> bytes]
    ELSE IF /\ Len(bytes) >= 2
            /\ bytes[1] = codec_tag(c)
            /\ bytes[2] = Len(bytes) - 2
         THEN [st |-> "ok", val |-> SubSeq(bytes, 3, Len(bytes))]
         ELSE [st |-> "err", val |-> << >>]

\* decode_timeuuid: a time-based UUID has version 1 in the high nibble of
\* its seventh byte.
decode_timeuuid(bytes) ==
    IF Len(bytes) = UUID_LEN /\ bytes[7] \div 16 = 1
    THEN [st |-> "ok", val |-> bytes]
    ELSE [st |-> "err", val |-> << >>]

\* CString::from_cursor: a short length, then that many bytes of UTF-8;
\* a failure is returned, not unwrapped.
cstring_from_cursor(buf, cur) ==
    IF remaining(buf, cur) < 2
    THEN [st |-> "err", val |-> << >>, cur |-> Len(buf), why |-> "UnexpectedEof"]
    ELSE LET len == u_to_int(from_bytes(SubSeq(buf, cur + 1, cur + 2)))
         IN  IF remaining(buf, cur + 2) < len
             THEN [st |-> "err", val |-> << >>, cur |-> Len(buf), why |-> "UnexpectedEof"]
             ELSE IF ~utf8_valid(SubSeq(buf, cur + 3, cur + 2 + len))
             THEN [st |-> "err", val |-> << >>, cur |-> cur + 2 + len, why |-> "Utf8Error"]
             ELSE [st |-> "ok", val |-> SubSeq(buf, cur + 3, cur + 2 + len),
                   cur |-> cur + 2 + len, why |-> ""]

RECURSIVE cstring_list_loop(_, _, _, _)
cstring_list_loop(n, buf, cur, list) ==
    IF n = 0 THEN [st |-> "ok", val |-> list, cur |-> cur, why |-> ""]
    ELSE LET s == cstring_from_cursor(buf, cur)
         IN  IF s.st # "ok" THEN [st |-> "err", val |-> << >>, cur |-> s.cur, why |-> s.why]
             ELSE cstring_list_loop(n - 1, buf, s.cur, Append(list, s.val))

\* CStringList::from_cursor(..).into_plain(): a short count, then that many
\* strings.
cstring_list_from_cursor(buf, cur) ==
    IF remaining(buf, cur) < 2
    THEN [st |-> "err", val |-> << >>, cur |-> Len(buf), why |-> "UnexpectedEof"]
    ELSE cstring_list_loop(u_to_int(from_bytes(SubSeq(buf, cur + 1, cur + 2))),
                           buf, cur + 2, << >>)

\* Frame::get_body restricted to the Error opcode: the body of an ERROR
\* message is an int error code and a string message.
get_body(frame) ==
    IF Len(frame.body) < 4 THEN [st |-> "err", val |-> [error_code |-> 0, message |-> << >>]]
    ELSE LET s == cstring_from_cursor(frame.body, 4)
         IN  IF s.st # "ok"
             THEN [st |-> "err", val |-> [error_code |-> 0, message |-> << >>]]
             ELSE [st |-> "ok",
                   val |-> [error_code |-> i32_from_be_bytes(SubSeq(frame.body, 1, 4)),
                            message |-> s.val]]

-----------------------------------------------------------------------------
(* What the peer writes: the wire format of a frame, used to build the     *)
(* byte source the decoder reads.  A frame description records the header  *)
(* fields and the sections the peer meant, next to their bytes.            *)

be16(n) == <<(n \div 256) % 256, n % 256>>
be32(n) == <<(n \div 16777216) % 256, (n \div 65536) % 256, (n \div 256) % 256, n % 256>>

RECURSIVE concat(_)
concat(seqs) == IF seqs = << >> THEN << >> ELSE Head(seqs) \o concat(Tail(seqs))

enc_string(s) == be16(Len(s)) \o s
enc_bytes(b) == be32(Len(b)) \o b
enc_string_list(list) ==
    be16(Len(list)) \o concat([i \in 1..Len(list) |-> enc_string(list[i])])
\* entries: a sequence of <<key, value>> pairs, written in that order.
enc_bytes_map(entries) ==
    be16(Len(entries)) \o
    concat([i \in 1..Len(entries) |-> enc_string(entries[i][1]) \o enc_bytes(entries[i][2])])

\* The map a reader of the entries builds: a later entry replaces an earlier
\* one with the same key.
RECURSIVE map_of(_)
map_of(entries) ==
    IF entries = << >> THEN {}
    ELSE LET last == entries[Len(entries)]
             init == map_of(SubSeq(entries, 1, Len(entries) - 1))
         IN  {p \in init : p[1] # last[1]} \cup {last}

compress(c, bytes) == <<codec_tag(c), Len(bytes)>> \o bytes

TimeUuid == <<18, 52, 86, 120, 154, 188, 17, 222, 128, 1, 2, 3, 4, 5, 6, 7>>
RandomUuid == <<18, 52, 86, 120, 154, 188, 65, 222, 128, 1, 2, 3, 4, 5, 6, 7>>

\* A section the peer may put in the body: set (its flag is set), its bytes,
\* wf (the bytes are a complete, valid encoding), and what they encode.
TracingOpts ==
    { [set |-> FALSE, bytes |-> << >>, wf |-> TRUE, id |-> None],
      [set |-> TRUE, bytes |-> TimeUuid, wf |-> TRUE, id |-> Some(TimeUuid)],
      [set |-> TRUE, bytes |-> RandomUuid, wf |-> TRUE, id |-> None],
      [set |-> TRUE, bytes |-> <<18, 52, 86>>, wf |-> FALSE, id |-> None] }

WarningOpts ==
    { [set |-> FALSE, bytes |-> << >>, wf |-> TRUE, list |-> << >>],
      [set |-> TRUE, bytes |-> enc_string_list(<< >>), wf |-> TRUE, list |-> << >>],
      [set |-> TRUE, bytes |-> enc_string_list(<< <<119, 49>>, <<119>> >>), wf |-> TRUE,
       list |-> << <<119, 49>>, <<119>> >>],
      [set |-> TRUE, bytes |-> <<0, 2, 0, 1, 119>>, wf |-> FALSE, list |-> << >>] }

Entries ==
    { << >>,
      << <<(<<107>>), <<7, 7>>>> >>,
      << <<(<<107>>), <<7, 7>>>>, <<(<<107>>), << >>>> >>,
      << <<(<<107>>), <<7>>>>, <<(<<>>), <<9>>>> >> }

\* Custom payloads cut short or malformed at each reader.
BadPayloads ==
    { <<0>>,                                  \* read_short: 1 byte of the count
      <<0, 1>>,                               \* read_bytes_map: an entry is missing
      <<0, 1, 0, 3, 107>>,                    \* read_string / read_raw_bytes
      <<0, 1, 0, 1, 107, 0, 0>>,              \* read_int: 2 bytes of the length
      <<0, 1, 0, 1, 107, 0, 0, 0, 5, 7>>,     \* read_bytes: 1 byte of 5
      <<0, 1, 0, 1, 107, 255, 255, 255, 255>>,\* a bytes length of -1
      <<0, 1, 0, 1, 255, 0, 0, 0, 0>> }       \* a key that is not UTF-8

GoodPayloadOpts ==
    { [set |-> FALSE, bytes |-> << >>, wf |-> TRUE, map |-> {}] }
    \cup { [set |-> TRUE, bytes |-> enc_bytes_map(e), wf |-> TRUE, map |-> map_of(e)] :
           e \in Entries }
BadPayloadOpts ==
    { [set |-> TRUE, bytes |-> b, wf |-> FALSE, map |-> {}] : b \in BadPayloads }
PayloadOpts == GoodPayloadOpts \cup BadPayloadOpts

\* The header fields and application body of the messages the peer sends:
\* a RESULT with a reserved flag bit set, an ERROR with its code and
\* message, an ERROR without a body, and a version 4 message with stream 1,
\* opcode 8 and no body.
Kinds ==
    { [version |-> 132, stream |-> 258, opcode |-> 8, app |-> <<1, 2, 3>>, reserved |-> 16],
      [version |-> 132, stream |-> 65535, opcode |-> 0,
       app |-> be32(8704) \o enc_string(<<101>>), reserved |-> 0],
      [version |-> 132, stream |-> 1, opcode |-> 0, app |-> << >>, reserved |-> 0],
      [version |-> 4, stream |-> 1, opcode |-> 8, app |-> << >>, reserved |-> 0] }

flag_byte_of(k, t, w, p, cmp) ==
    k.reserved + (IF cmp THEN 1 ELSE 0) + (IF t.set THEN 2 ELSE 0)
    + (IF p.set THEN 4 ELSE 0) + (IF w.set THEN 8 ELSE 0)

\* len_field: the four bytes of the body length the header declares, << >>
\* for the true length.
mk_frame(k, t, w, p, cmp, len_field) ==
    [version |-> k.version, flag_byte |-> flag_byte_of(k, t, w, p, cmp),
     stream |-> k.stream, opcode |-> k.opcode, len_field |-> len_field,
     compressed |-> cmp, tracing |-> t, warnings |-> w, payload |-> p, app |-> k.app,
     wf |-> t.wf /\ w.wf /\ p.wf /\ len_field = << >>]

\* The body before compression: the sections in wire order, then the
\* application body.
plain_body(f) == f.tracing.bytes \o f.warnings.bytes \o f.payload.bytes \o f.app

wire_body(f) == IF f.compressed THEN compress("Lz4", plain_body(f)) ELSE plain_body(f)

encode_frame(f) ==
    <<f.version, f.flag_byte>> \o be16(f.stream) \o <<f.opcode>>
    \o (IF f.len_field = << >> THEN be32(Len(wire_body(f))) ELSE f.len_field)
    \o wire_body(f)

RichFrames ==
    { mk_frame(k, t, w, p, cmp, << >>) :
        k \in Kinds, t \in TracingOpts, w \in WarningOpts, p \in GoodPayloadOpts,
        cmp \in BOOLEAN }
    \cup { mk_frame(k, t, w, p, cmp, << >>) :
        k \in {x \in Kinds : x.opcode # 0}, t \in {x \in TracingOpts : x.wf},
        w \in {x \in WarningOpts : x.wf /\ Len(x.bytes) # 2}, p \in BadPayloadOpts,
        cmp \in BOOLEAN }

\* A few well-formed frames for streams of several frames and for cuts.
PlainOpt(opts) == CHOOSE o \in opts : ~o.set
FullOpt(opts) == CHOOSE o \in opts : o.set /\ o.wf /\ Len(o.bytes) > 2
SmallFrames ==
    { mk_frame(k, PlainOpt(TracingOpts), PlainOpt(WarningOpts), PlainOpt(PayloadOpts),
               FALSE, << >>) : k \in Kinds }
    \cup { mk_frame(k, FullOpt(TracingOpts), FullOpt(WarningOpts), FullOpt(PayloadOpts),
                    cmp, << >>) :
           k \in {x \in Kinds : x.stream = 258}, cmp \in BOOLEAN }

\* Headers whose body length has the sign bit set.
NegativeLengthFrames ==
    { mk_frame(k, PlainOpt(TracingOpts), PlainOpt(WarningOpts), PlainOpt(PayloadOpts),
               FALSE, n) :
        k \in {x \in Kinds : x.opcode # 0}, n \in {<<255, 255, 255, 255>>, <<128, 0, 0, 0>>} }

RECURSIVE encode_all(_)
encode_all(frames) ==
    IF frames = << >> THEN << >>
    ELSE encode_frame(Head(frames)) \o encode_all(Tail(frames))

RECURSIVE FrameSeqs(_)
FrameSeqs(n) ==
    IF n = 0 THEN {<< >>}
    ELSE LET shorter == FrameSeqs(n - 1)
         IN  shorter \cup { Append(s, f) : s \in {x \in shorter : Len(x) = n - 1},
                                            f \in SmallFrames }

\* The byte sources of the model: the frames sent and the bytes that arrive
\* (all of them, or a proper prefix when the connection is cut).
Inputs ==
    { [sent |-> <<f>>, wire |-> encode_frame(f), cut |-> FALSE] :
        f \in RichFrames \cup NegativeLengthFrames }
    \cup { [sent |-> s, wire |-> encode_all(s), cut |-> FALSE] : s \in FrameSeqs(MaxFrames) }
    \cup UNION { { [sent |-> <<f>>, wire |-> SubSeq(encode_frame(f), 1, n), cut |-> TRUE] :
                   n \in 0..(Len(encode_frame(f)) - 1) } : f \in SmallFrames }

-----------------------------------------------------------------------------
(* The state.                                                              *)

VARIABLES
    wire,        \* the bytes the connection's byte source delivers
    pos,         \* how many of them have been consumed
    borrow,      \* the RefCell: 0 when not borrowed, else the call holding the RefMut
    compressor,  \* the compression configured for the connection
    calls,       \* the state of each parse_frame call
    conn_log,    \* history: the reads made on the byte source, in order
    sent         \* history: the frames the peer meant to send

vars == <<wire, pos, borrow, compressor, calls, conn_log, sent>>

Calls == 1..MaxCalls

\* The read buffers of lines 32-36, zero-filled.
zeroes(n) == [i \in 1..n |-> 0]
header_buffers ==
    [version |-> zeroes(VERSION_LEN), flags |-> zeroes(FLAG_LEN),
     stream |-> zeroes(STREAM_LEN), opcode |-> zeroes(OPCODE_LEN),
     length |-> zeroes(LENGTH_LEN)]

Pending == [kind |-> "Pending", frame |-> None, err |-> "", server |-> None]
OkFrame(frame) == [kind |-> "Ok", frame |-> Some(frame), err |-> "", server |-> None]
Err(what) == [kind |-> "Err", frame |-> None, err |-> what, server |-> None]
ErrServer(e) == [kind |-> "Err", frame |-> None, err |-> "Server", server |-> Some(e)]
Panicked(why) == [kind |-> "Panic", frame |-> None, err |-> why, server |-> None]

\* A call that has not started.  short_read is history: some read_exact of
\* the call found fewer bytes than it asked for.
idle_call ==
    [pc |-> "idle", start |-> 0, field |-> 1, hdr |-> header_buffers,
     version |-> 0, flags |-> {}, stream |-> 0, opcode |-> 0,
     length |-> [hi |-> 0, lo |-> 0], buf_len |-> None, body_bytes |-> << >>,
     strategy |-> "", full_body |-> << >>, cur |-> 0,
     tracing_id |-> None, warnings |-> << >>, custom_payload |-> None,
     frame |-> None, short_read |-> FALSE, result |-> Pending]

Init ==
    /\ \E inp \in Inputs : wire = inp.wire /\ sent = inp.sent
    /\ compressor \in Compressions
    /\ pos = 0
    /\ borrow = 0
    /\ calls = [c \in Calls |-> idle_call]
    /\ conn_log = << >>

\* The call returns `result`; the RefMut is dropped with the call's frame.
return(call, result) == [call EXCEPT !.pc = "returned", !.result = result]
\* The call unwinds from a panic.
unwind(call, why) == [call EXCEPT !.pc = "panicked", !.result = Panicked(why)]

\* History of a read_exact by call c for the named buffer: where it
\* started, how many bytes it consumed, and whether it filled the buffer.
log_read(c, field, want_met, got) ==
    Append(conn_log, [call |-> c, field |-> field, at |-> pos, got |-> got, full |-> want_met])

-----------------------------------------------------------------------------
(* parse_frame, one action per step.                                       *)

\* A cell that hands out the byte source without checking that it is free.
borrow_mut_unchecked(c) ==
    /\ calls[c].pc = "idle"
    /\ IF c = 1 THEN TRUE ELSE calls[c - 1].pc # "idle"
    /\ IF borrow = 0 THEN TRUE ELSE calls[borrow].pc \in {"header", "read_body"}
    /\ borrow' = c
    /\ calls' = [calls EXCEPT ![c] = [@ EXCEPT !.pc = "header", !.start = pos]]
    /\ UNCHANGED <<wire, pos, compressor, conn_log, sent>>

\* Line 37, cursor_cell.borrow_mut().  A call starts when the calls before
\* it have; the cell is free when they have all ended, and is borrowed when
\* the call is made from inside a read of the byte source: RefCell then
\* panics, and the panic either stops there or unwinds the outer call too.
borrow_mut(c) ==
    /\ calls[c].pc = "idle"
    /\ IF c = 1 THEN TRUE ELSE calls[c - 1].pc # "idle"
    /\ \/ /\ borrow = 0
          /\ borrow' = c
          /\ calls' = [calls EXCEPT ![c] = [@ EXCEPT !.pc = "header", !.start = pos]]
       \/ /\ borrow # 0
          /\ calls[borrow].pc \in {"header", "read_body"}
          /\ \/ /\ calls' = [calls EXCEPT ![c] = unwind(@, "BorrowMutError")]
                /\ UNCHANGED borrow
             \/ /\ calls' = [calls EXCEPT ![c] = unwind(@, "BorrowMutError"),
                                          ![borrow] = unwind(@, "BorrowMutError")]
                /\ borrow' = 0
    /\ UNCHANGED <<wire, pos, compressor, conn_log, sent>>

\* The header reads with the stream id and the opcode exchanged.
header_reads_swapped == <<"version", "flags", "opcode", "stream", "length">>

\* Lines 40-44: the order of the header reads.
header_reads == <<"version", "flags", "stream", "opcode", "length">>

\* One read_exact of lines 40-44 on the byte source.
read_header(c) ==
    LET call == calls[c]
        name == header_reads[call.field]
        n == Len(call.hdr[name])
    IN  /\ call.pc = "header"
        /\ \/ /\ Len(wire) - pos >= n
              /\ pos' = pos + n
              /\ conn_log' = log_read(c, name, TRUE, n)
              /\ calls' = [calls EXCEPT ![c] =
                    [@ EXCEPT !.hdr[name] = SubSeq(wire, pos + 1, pos + n),
                              !.field = @ + 1,
                              !.pc = IF call.field = Len(header_reads)
                                     THEN "read_body" ELSE "header"]]
              /\ UNCHANGED borrow
           \/ /\ Len(wire) - pos < n
              /\ pos' = Len(wire)
              /\ conn_log' = log_read(c, name, FALSE, Len(wire) - pos)
              /\ calls' = [calls EXCEPT ![c] = return([@ EXCEPT !.short_read = TRUE], Err("Io"))]
              /\ borrow' = 0
        /\ UNCHANGED <<wire, compressor, sent>>

\* Lines 46-57: the header fields are decoded, the body buffer is given the
\* declared length, and the body is read from the byte source.
read_body(c) ==
    LET call == calls[c]
        length == from_bytes(call.hdr.length)
        decoded == [call EXCEPT !.version = version_from(call.hdr.version),
                                !.flags = get_collection(call.hdr.flags[1]),
                                !.stream = from_u16_bytes(call.hdr.stream),
                                !.opcode = opcode_from(call.hdr.opcode[1]),
                                !.length = length,
                                !.buf_len = Some(length)]
    IN  /\ call.pc = "read_body"
        /\ \/ /\ u_le(length, Len(wire) - pos)
              /\ pos' = pos + u_to_int(length)
              /\ conn_log' = log_read(c, "body", TRUE, u_to_int(length))
              /\ calls' = [calls EXCEPT ![c] =
                    [decoded EXCEPT !.body_bytes = SubSeq(wire, pos + 1, pos + u_to_int(length)),
                                    !.pc = "decode"]]
              /\ UNCHANGED borrow
           \/ /\ ~u_le(length, Len(wire) - pos)
              /\ pos' = Len(wire)
              /\ conn_log' = log_read(c, "body", FALSE, Len(wire) - pos)
              /\ calls' = [calls EXCEPT ![c] =
                    return([decoded EXCEPT !.short_read = TRUE], Err("Io"))]
              /\ borrow' = 0
        /\ UNCHANGED <<wire, compressor, sent>>

\* The configured strategy applied whatever the frame's flag says.
decode_strategy_configured(flags, configured) == configured

\* Lines 59-63: the strategy whose decode is applied to the raw body.
decode_strategy(flags, configured) ==
    IF "Compression" \in flags THEN configured ELSE "None"

\* The custom payload taken before the warnings.
section_order_swapped == <<"tracing", "custom_payload", "warnings">>

\* Lines 66-93: the sections of the extended body, in the order they are
\* taken from the front of the body.
section_order == <<"tracing", "warnings", "custom_payload">>

\* The step that follows a section: the next section, or the rest of the
\* body.
step_after(section) ==
    LET i == CHOOSE k \in 1..Len(section_order) : section_order[k] = section
    IN  IF i = Len(section_order) THEN "finish" ELSE section_order[i + 1]

\* Lines 59-66.
decode_body(c) ==
    LET call == calls[c]
        strategy == decode_strategy(call.flags, compressor)
        full_body == compression_decode(strategy, call.body_bytes)
    IN  /\ call.pc = "decode"
        /\ \/ /\ full_body.st = "ok"
              /\ calls' = [calls EXCEPT ![c] =
                    [@ EXCEPT !.strategy = strategy, !.full_body = full_body.val,
                              !.cur = 0, !.pc = section_order[1]]]
              /\ UNCHANGED borrow
           \/ /\ full_body.st # "ok"
              /\ calls' = [calls EXCEPT ![c] =
                    return([@ EXCEPT !.strategy = strategy], Err("Compression"))]
              /\ borrow' = 0
        /\ UNCHANGED <<wire, pos, compressor, conn_log, sent>>

\* The failure of decode_timeuuid propagated with `?` instead of `.ok()`.
parse_tracing_strict(c) ==
    LET call == calls[c]
        tracing_bytes == SubSeq(call.full_body, call.cur + 1, call.cur + UUID_LEN)
        id == decode_timeuuid(tracing_bytes)
        fails == "Tracing" \in call.flags
                 /\ (remaining(call.full_body, call.cur) < UUID_LEN \/ id.st # "ok")
    IN  /\ call.pc = "tracing"
        /\ calls' = [calls EXCEPT ![c] =
              IF fails THEN return(@, Err("Io"))
              ELSE [@ EXCEPT !.tracing_id = IF "Tracing" \in call.flags
                                            THEN Some(id.val) ELSE None,
                             !.cur = IF "Tracing" \in call.flags THEN @ + UUID_LEN ELSE @,
                             !.pc = step_after("tracing")]]
        /\ borrow' = IF fails THEN 0 ELSE borrow
        /\ UNCHANGED <<wire, pos, compressor, conn_log, sent>>

\* Lines 68-78: the tracing id.
parse_tracing(c) ==
    LET call == calls[c]
        tracing_bytes == SubSeq(call.full_body, call.cur + 1, call.cur + UUID_LEN)
        id == decode_timeuuid(tracing_bytes)
    IN  /\ call.pc = "tracing"
        /\ \/ /\ "Tracing" \notin call.flags
              /\ calls' = [calls EXCEPT ![c] =
                    [@ EXCEPT !.tracing_id = None, !.pc = step_after("tracing")]]
              /\ UNCHANGED borrow
           \/ /\ "Tracing" \in call.flags
              /\ remaining(call.full_body, call.cur) >= UUID_LEN
              /\ calls' = [calls EXCEPT ![c] =
                    [@ EXCEPT !.tracing_id = IF id.st = "ok" THEN Some(id.val) ELSE None,
                              !.cur = @ + UUID_LEN,
                              !.pc = step_after("tracing")]]
              /\ UNCHANGED borrow
           \/ /\ "Tracing" \in call.flags
              /\ remaining(call.full_body, call.cur) < UUID_LEN
              /\ calls' = [calls EXCEPT ![c] = return([@ EXCEPT !.short_read = TRUE], Err("Io"))]
              /\ borrow' = 0
        /\ UNCHANGED <<wire, pos, compressor, conn_log, sent>>

\* Lines 80-84: the warnings.
parse_warnings(c) ==
    LET call == calls[c]
        list == cstring_list_from_cursor(call.full_body, call.cur)
    IN  /\ call.pc = "warnings"
        /\ \/ /\ "Warning" \notin call.flags
              /\ calls' = [calls EXCEPT ![c] =
                    [@ EXCEPT !.warnings = << >>, !.pc = step_after("warnings")]]
              /\ UNCHANGED borrow
           \/ /\ "Warning" \in call.flags
              /\ list.st = "ok"
              /\ calls' = [calls EXCEPT ![c] =
                    [@ EXCEPT !.warnings = list.val, !.cur = list.cur,
                              !.pc = step_after("warnings")]]
              /\ UNCHANGED borrow
           \/ /\ "Warning" \in call.flags
              /\ list.st # "ok"
              /\ calls' = [calls EXCEPT ![c] =
                    return([@ EXCEPT !.short_read = (list.why = "UnexpectedEof")],
                           Err(IF list.why = "UnexpectedEof" THEN "Io" ELSE list.why))]
              /\ borrow' = 0
        /\ UNCHANGED <<wire, pos, compressor, conn_log, sent>>

\* Lines 86-91: the custom payload; read_bytes_map(..).unwrap().
parse_custom_payload(c) ==
    LET call == calls[c]
        payload == read_bytes_map(call.full_body, call.cur)
    IN  /\ call.pc = "custom_payload"
        /\ \/ /\ "CustomPayload" \notin call.flags
              /\ calls' = [calls EXCEPT ![c] =
                    [@ EXCEPT !.custom_payload = None, !.pc = step_after("custom_payload")]]
              /\ UNCHANGED borrow
           \/ /\ "CustomPayload" \in call.flags
              /\ payload.st = "ok"
              /\ calls' = [calls EXCEPT ![c] =
                    [@ EXCEPT !.custom_payload = Some(payload.val), !.cur = payload.cur,
                              !.pc = step_after("custom_payload")]]
              /\ UNCHANGED borrow
           \/ /\ "CustomPayload" \in call.flags
              /\ payload.st = "panic"
              /\ calls' = [calls EXCEPT ![c] =
                    unwind([@ EXCEPT !.short_read = (payload.why = "UnexpectedEof")],
                           payload.why)]
              /\ borrow' = 0
        /\ UNCHANGED <<wire, pos, compressor, conn_log, sent>>

\* An Error frame returned like any other.
convert_frame_into_result_ok(frame) == OkFrame(frame)

\* Lines 110-118.
convert_frame_into_result(frame) ==
    IF frame.opcode = OPCODE_ERROR
    THEN LET err == get_body(frame)
         IN  IF err.st = "ok" THEN ErrServer(err.val) ELSE Err("Body")
    ELSE OkFrame(frame)

\* Lines 97-105: the Frame literal.
Frame(call, body) ==
    [version |-> call.version, flags |-> call.flags, opcode |-> call.opcode,
     stream |-> call.stream, body |-> body, tracing_id |-> call.tracing_id,
     warnings |-> call.warnings]

\* Lines 97-107 and the end of the call: the frame is built from `body`,
\* converted and returned, the byte source being left at `pos_after`.
finish_with(c, body, pos_after) ==
    LET frame == Frame(calls[c], body)
    IN  /\ calls' = [calls EXCEPT ![c] =
              return([@ EXCEPT !.frame = Some(frame)], convert_frame_into_result(frame))]
        /\ pos' = pos_after
        /\ borrow' = 0
        /\ UNCHANGED <<wire, compressor, conn_log, sent>>

\* read_to_end on the connection's cursor instead of body_cursor.
return_frame_from_connection(c) ==
    /\ calls[c].pc = "finish"
    /\ finish_with(c, SubSeq(wire, pos + 1, Len(wire)), Len(wire))

\* Lines 93-107: body_cursor.read_to_end, the Frame, the result.
return_frame(c) ==
    /\ calls[c].pc = "finish"
    /\ finish_with(c, SubSeq(calls[c].full_body, calls[c].cur + 1, Len(calls[c].full_body)),
                   pos)

Next ==
    \E c \in Calls :
        \/ borrow_mut(c)
        \/ read_header(c)
        \/ read_body(c)
        \/ decode_body(c)
        \/ parse_tracing(c)
        \/ parse_warnings(c)
        \/ parse_custom_payload(c)
        \/ return_frame(c)

Spec == Init /\ [][Next]_vars

-----------------------------------------------------------------------------
(* Vocabulary of the properties.                                           *)

started(c) == calls[c].pc # "idle"
finished(c) == calls[c].pc \in {"returned", "panicked"}
active(c) == started(c) /\ ~finished(c)

\* The reads call c made on the byte source.
reads_of(c) == SelectSeq(conn_log, LAMBDA e : e.call = c)

\* The i-th byte of the frame call c reads (i = 1 is the version byte).
byte_at(c, i) == wire[calls[c].start + i]

\* Call c has decoded the header (lines 46-50 have run).
header_decoded(c) == calls[c].buf_len # None
\* Call c has read the whole body from the byte source.
body_read(c) ==
    \E i \in 1..Len(conn_log) :
        conn_log[i].call = c /\ conn_log[i].field = "body" /\ conn_log[i].full

\* Where the k-th frame sent starts in the bytes sent.
offset(k) == Len(encode_all(SubSeq(sent, 1, k - 1)))

\* The frames sent that call c can have read: those that start where the
\* call started and arrived whole.
frames_of(c) ==
    {k \in 1..Len(sent) : offset(k) = calls[c].start /\ offset(k + 1) <= Len(wire)}

\* The decoder can recover what the peer meant: the sections are
\* well-formed and a compressed body was compressed with the configured
\* strategy.
faithful(f) == f.wf /\ (f.compressed => compressor = "Lz4")

\* The custom payload a Frame carries: absent when the Frame has no such
\* field.
frame_custom_payload(frame) ==
    IF "custom_payload" \in DOMAIN frame THEN frame.custom_payload ELSE None

-----------------------------------------------------------------------------
(* The header.                                                             *)

\* The layout the protocol gives the header: field, offset, width.
HeaderLayout ==
    << [field |-> "version", at |-> 0, n |-> 1],
       [field |-> "flags", at |-> 1, n |-> 1],
       [field |-> "stream", at |-> 2, n |-> 2],
       [field |-> "opcode", at |-> 4, n |-> 1],
       [field |-> "length", at |-> 5, n |-> 4] >>

\* C1: every call reads version (1 byte), flags (1), stream id (2), opcode
\* (1) and body length (4) from the byte source in that order and at those
\* offsets; the body is read next, 9 bytes after the start, whatever the
\* flags byte; and each decoded field is the big-endian value of its own
\* bytes (stream from bytes 2-3, opcode from byte 4, length from bytes 5-8).
C1_HeaderReadOrder ==
    \A c \in Calls :
        LET r == reads_of(c)
            s == calls[c].start
        IN  /\ Len(r) <= Len(HeaderLayout) + 1
            /\ \A i \in 1..Len(r) :
                 IF i <= Len(HeaderLayout)
                 THEN /\ r[i].field = HeaderLayout[i].field
                      /\ r[i].at = s + HeaderLayout[i].at
                      /\ r[i].full => r[i].got = HeaderLayout[i].n
                      /\ i < Len(r) => r[i].full
                 ELSE /\ r[i].field = "body"
                      /\ r[i].at = s + 9
            /\ header_decoded(c) =>
                 /\ calls[c].version = byte_at(c, 1)
                 /\ calls[c].flags = {f \in Flags : has_bit(byte_at(c, 2), flag_bit(f))}
                 /\ calls[c].stream = byte_at(c, 3) * 256 + byte_at(c, 4)
                 /\ calls[c].opcode = byte_at(c, 5)
                 /\ calls[c].length.hi = byte_at(c, 6) * 256 + byte_at(c, 7)
                 /\ calls[c].length.lo = byte_at(c, 8) * 256 + byte_at(c, 9)
            /\ header_decoded(c) /\ frames_of(c) # {} =>
                 \A k \in frames_of(c) :
                     /\ calls[c].version = sent[k].version
                     /\ calls[c].stream = sent[k].stream
                     /\ calls[c].opcode = sent[k].opcode
                     /\ IF sent[k].len_field = << >>
                        THEN /\ ~u_sign_bit(calls[c].length)
                             /\ u_to_int(calls[c].length) = Len(wire_body(sent[k]))
                        ELSE u_sign_bit(calls[c].length)

\* A call has read the body of a frame with three flags set, a two-byte
\* stream id and a non-empty body, right after the five header reads.
C1_Witness ==
    \E c \in Calls :
        /\ Len(reads_of(c)) = 6
        /\ body_read(c)
        /\ calls[c].flags = {"Tracing", "CustomPayload", "Warning"}
        /\ calls[c].stream = 258
        /\ calls[c].length.lo > 16

-----------------------------------------------------------------------------
(* Compression.                                                            *)

\* C2: the configured strategy's decode is applied to the raw body if and
\* only if the Compression bit is set in the frame's flags byte; with the
\* bit unset the body passes through unchanged (the None strategy), also
\* when the connection is configured with Lz4 or Snappy.
C2_FlagGovernsCompression ==
    \A c \in Calls :
        calls[c].strategy # "" =>
            LET flag == has_bit(byte_at(c, 2), 1)
                raw == SubSeq(wire, calls[c].start + 10,
                              calls[c].start + 9 + u_to_int(calls[c].length))
                decoded == calls[c].pc # "returned" \/ calls[c].result.err # "Compression"
            IN  /\ calls[c].strategy = "None" <=> (~flag \/ compressor = "None")
                /\ flag => calls[c].strategy = compressor
                /\ ~flag => decoded /\ calls[c].full_body = raw
                /\ flag /\ compressor # "None" /\ decoded =>
                       raw = compress(compressor, calls[c].full_body)
                /\ flag /\ compressor # "None" /\ ~decoded =>
                       \A b \in {calls[c].full_body, SubSeq(raw, 3, Len(raw))} :
                           raw # compress(compressor, b)

\* An uncompressed, non-empty body has gone through the identity on a
\* connection configured with Lz4.
C2_Witness ==
    \E c \in Calls :
        /\ compressor = "Lz4"
        /\ "Compression" \notin calls[c].flags
        /\ calls[c].strategy = "None"
        /\ calls[c].pc = "tracing"
        /\ Len(calls[c].full_body) > 0
        /\ calls[c].full_body = calls[c].body_bytes

-----------------------------------------------------------------------------
(* The result.                                                             *)

\* C3: a call whose frame has opcode Error never returns a successful
\* Frame: once the frame is decoded the call returns a failure, the server
\* error decoded from the body; for every other opcode the decoded frame is
\* the success value, unchanged.
C3_ErrorOpcodeIsFailure ==
    \A c \in Calls :
        /\ calls[c].result.kind = "Ok" =>
               /\ byte_at(c, 5) # OPCODE_ERROR
               /\ calls[c].result.frame = calls[c].frame
               /\ calls[c].frame # None
        /\ calls[c].frame # None =>
               IF byte_at(c, 5) = OPCODE_ERROR
               THEN /\ calls[c].result.kind = "Err"
                    /\ calls[c].result.frame = None
                    /\ calls[c].result.err \in {"Server", "Body"}
                    /\ calls[c].frame[1].body = be32(8704) \o enc_string(<<101>>) =>
                           calls[c].result.server =
                               Some([error_code |-> 8704, message |-> <<101>>])
               ELSE calls[c].result = OkFrame(calls[c].frame[1])

\* An Error frame with flags set was decoded and the call returned its
\* server error.
C3_Witness ==
    \E c \in Calls :
        /\ calls[c].frame # None
        /\ calls[c].opcode = OPCODE_ERROR
        /\ calls[c].flags # {}
        /\ calls[c].result.kind = "Err"
        /\ calls[c].result.server = Some([error_code |-> 8704, message |-> <<101>>])

-----------------------------------------------------------------------------
(* The custom payload.                                                     *)

\* C4: in the Frame of a successful decode, custom_payload is absent when
\* the CustomPayload flag is unset and is the decoded map (empty for a
\* count of 0) when it is set.
C4_CustomPayloadInFrame ==
    \A c \in Calls :
        calls[c].result.kind = "Ok" =>
            /\ ~has_bit(byte_at(c, 2), 4) =>
                   frame_custom_payload(calls[c].result.frame[1]) = None
            /\ has_bit(byte_at(c, 2), 4) =>
                   /\ frame_custom_payload(calls[c].result.frame[1]) # None
                   /\ frame_custom_payload(calls[c].result.frame[1]) = calls[c].custom_payload

-----------------------------------------------------------------------------
(* Truncated and malformed input.                                          *)

\* C5: a call one of whose reads found fewer bytes than a declared length
\* requires ends by returning a read failure, and in no other way.
C5_TruncatedInputIsReadFailure ==
    \A c \in Calls :
        calls[c].short_read /\ finished(c) => calls[c].result = Err("Io")

\* C6: a length that is negative as a signed 32-bit integer (the header's
\* body length, or the length of a byte blob) makes the call return a
\* failure; it never becomes the size of a buffer.
C6_NegativeLengthIsFailure ==
    \A c \in Calls :
        /\ calls[c].buf_len # None => ~u_sign_bit(calls[c].buf_len[1])
        /\ header_decoded(c) /\ byte_at(c, 6) >= 128 /\ finished(c) =>
               calls[c].result.kind = "Err"
        /\ calls[c].result.err = "TryFromIntError" => calls[c].result.kind = "Err"

-----------------------------------------------------------------------------
(* The extended body.                                                      *)

\* The call was unwound by a nested call's BorrowMutError (or is that
\* nested call), not by anything in the frame.
reentry_panic(c) == calls[c].result.err = "BorrowMutError"

\* C7: when the Tracing flag is set and the first 16 body bytes are not a
\* time-based UUID, the tracing step does not fail the call: tracing_id is
\* absent and the body cursor stands 16 bytes further, and the warnings,
\* the custom payload and the body are then what the peer put after the 16
\* bytes, as they are when the UUID is time-based.
C7_InvalidTracingIdIsSkipped ==
    \A c \in Calls :
        /\ calls[c].pc = "warnings" /\ has_bit(byte_at(c, 2), 2) =>
               /\ calls[c].cur = 16
               /\ (calls[c].full_body[7] \div 16 # 1) => calls[c].tracing_id = None
               /\ (calls[c].full_body[7] \div 16 = 1) =>
                      calls[c].tracing_id = Some(SubSeq(calls[c].full_body, 1, 16))
        /\ \A k \in frames_of(c) :
               faithful(sent[k]) /\ sent[k].tracing.set /\ finished(c) /\ ~reentry_panic(c) =>
                   /\ calls[c].frame # None
                   /\ calls[c].result.kind \in {"Ok", "Err"}
                   /\ calls[c].result.kind = "Err" => calls[c].result.err \in {"Server", "Body"}
                   /\ calls[c].tracing_id = sent[k].tracing.id
                   /\ calls[c].frame[1].tracing_id = sent[k].tracing.id
                   /\ calls[c].frame[1].warnings = sent[k].warnings.list
                   /\ calls[c].custom_payload =
                          (IF sent[k].payload.set THEN Some(sent[k].payload.map) ELSE None)
                   /\ calls[c].frame[1].body = sent[k].app

\* A frame whose tracing bytes are not a time-based UUID, with warnings, a
\* custom payload and a body behind them, was decoded successfully.
C7_Witness ==
    \E c \in Calls :
        /\ calls[c].result.kind = "Ok"
        /\ "Tracing" \in calls[c].flags
        /\ SubSeq(calls[c].full_body, 1, 16) = RandomUuid
        /\ calls[c].tracing_id = None
        /\ calls[c].frame[1].warnings = << <<119, 49>>, <<119>> >>
        /\ calls[c].custom_payload = Some({<< <<107>>, <<7, 7>> >>})
        /\ calls[c].frame[1].body = <<1, 2, 3>>

\* C8: the sections are taken from the front of the decoded body in the
\* order tracing id, warnings, custom payload, each if and only if its flag
\* is set, and the Frame's body is what remains; with no flag set the body
\* is the whole decoded body, and an empty body with no flag set gives a
\* Frame with an empty body, no tracing id, no warnings and no custom
\* payload.
C8_SectionsInOrder ==
    \A c \in Calls :
        /\ \A k \in frames_of(c) :
               faithful(sent[k]) /\ finished(c) /\ ~reentry_panic(c) =>
                   /\ calls[c].frame # None
                   /\ calls[c].cur = Len(sent[k].tracing.bytes) + Len(sent[k].warnings.bytes)
                                     + Len(sent[k].payload.bytes)
                   /\ calls[c].frame[1].tracing_id = sent[k].tracing.id
                   /\ calls[c].frame[1].warnings = sent[k].warnings.list
                   /\ calls[c].custom_payload =
                          (IF sent[k].payload.set THEN Some(sent[k].payload.map) ELSE None)
                   /\ calls[c].frame[1].body = sent[k].app
        /\ calls[c].frame # None =>
               /\ calls[c].frame[1].body =
                      SubSeq(calls[c].full_body, calls[c].cur + 1, Len(calls[c].full_body))
               /\ calls[c].cur >= (IF has_bit(byte_at(c, 2), 2) THEN 16 ELSE 0)
                                  + (IF has_bit(byte_at(c, 2), 8) THEN 2 ELSE 0)
                                  + (IF has_bit(byte_at(c, 2), 4) THEN 2 ELSE 0)
               /\ (byte_at(c, 2) % 16) \div 2 = 0 =>
                      /\ calls[c].cur = 0
                      /\ calls[c].frame[1].body = calls[c].full_body
                      /\ calls[c].frame[1].tracing_id = None
                      /\ calls[c].frame[1].warnings = << >>
                      /\ calls[c].custom_payload = None
                      /\ frame_custom_payload(calls[c].frame[1]) = None
               /\ byte_at(c, 2) % 16 = 0 =>
                      calls[c].frame[1].body =
                          SubSeq(wire, calls[c].start + 10,
                                 calls[c].start + 9 + u_to_int(calls[c].length))
        /\ (/\ header_decoded(c)
            /\ byte_at(c, 2) % 16 = 0
            /\ calls[c].length = [hi |-> 0, lo |-> 0]
            /\ finished(c)
            /\ ~reentry_panic(c)) =>
               /\ calls[c].frame # None
               /\ calls[c].frame[1].body = << >>
               /\ calls[c].frame[1].tracing_id = None
               /\ calls[c].frame[1].warnings = << >>
               /\ frame_custom_payload(calls[c].frame[1]) = None
               /\ calls[c].opcode # OPCODE_ERROR =>
                      calls[c].result.frame =
                          Some([version |-> byte_at(c, 1), flags |-> {},
                                opcode |-> byte_at(c, 5),
                                stream |-> byte_at(c, 3) * 256 + byte_at(c, 4),
                                body |-> << >>, tracing_id |-> None, warnings |-> << >>])

\* A frame with a warnings list and a one-entry custom payload, but no
\* tracing id, was decoded: the body is what follows the two sections.
C8_Witness ==
    \E c \in Calls :
        /\ calls[c].result.kind = "Ok"
        /\ calls[c].flags = {"Warning", "CustomPayload"}
        /\ calls[c].frame[1].warnings = << >>
        /\ calls[c].custom_payload = Some({<< <<107>>, <<7, 7>> >>})
        /\ calls[c].cur = 13
        /\ calls[c].frame[1].body = <<1, 2, 3>>

-----------------------------------------------------------------------------
(* The byte source.                                                        *)

\* C9: the byte source is borrowed by exactly the call in progress: the
\* borrow is held from before the call's first read until the call ends, it
\* is released however the call ends, and the reads of two calls never
\* interleave (a call made while the borrow is held reads nothing).
C9_ExclusiveBorrow ==
    /\ \A c \in Calls : active(c) <=> borrow = c
    /\ \A c \in Calls : finished(c) \/ ~started(c) => borrow # c
    /\ \A i, j \in 1..Len(conn_log) : i < j => conn_log[i].call <= conn_log[j].call
    /\ \A c \in Calls :
           calls[c].pc = "panicked" /\ reentry_panic(c) /\ calls[c].field = 1 =>
               reads_of(c) = << >>
    /\ \A c, d \in Calls : active(c) /\ active(d) => c = d

\* A call made while the byte source was borrowed has panicked without
\* reading, the outer call has gone on to fail on a short read, and the
\* borrow is released.
C9_Witness ==
    /\ MaxCalls >= 2
    /\ borrow = 0
    /\ calls[1].result = Err("Io")
    /\ Len(reads_of(1)) >= 2
    /\ calls[2].result = Panicked("BorrowMutError")
    /\ reads_of(2) = << >>

\* The calls before c that read a whole body.
earlier_bodies(c) == {d \in Calls : d < c /\ body_read(d)}

\* Every call before c that read from the byte source read a whole frame
\* from it, so that call c starts where a frame starts.
aligned(c) == \A d \in Calls : d < c /\ reads_of(d) # << >> => body_read(d)

\* C10: a call that has read the body has consumed exactly 9 + length
\* bytes of the byte source, however it ends: nothing after the body read
\* touches the byte source.  So calls that each read a body read the frames
\* sent one per call, in wire order.
C10_ConsumesOneFrame ==
    \A c \in Calls :
        body_read(c) =>
            LET len == u_to_int([hi |-> byte_at(c, 6) * 256 + byte_at(c, 7),
                                 lo |-> byte_at(c, 8) * 256 + byte_at(c, 9)])
                k == Cardinality(earlier_bodies(c)) + 1
            IN  /\ (\A d \in Calls : d > c => reads_of(d) = << >>) =>
                       pos = calls[c].start + 9 + len
                /\ \A d \in Calls : d > c /\ reads_of(d) # << >> =>
                       calls[d].start >= calls[c].start + 9 + len
                /\ \A d \in Calls : d > c /\ reads_of(d) # << >> /\ aligned(d)
                                    /\ earlier_bodies(d) = earlier_bodies(c) \cup {c} =>
                       calls[d].start = calls[c].start + 9 + len
                /\ aligned(c) =>
                       /\ k <= Len(sent)
                       /\ frames_of(c) = {k}
                       /\ calls[c].stream = sent[k].stream
                       /\ calls[c].body_bytes = wire_body(sent[k])
                       /\ faithful(sent[k]) /\ calls[c].frame # None =>
                              calls[c].frame[1].body = sent[k].app

\* The second call returned the second frame of the stream after the first
\* call returned the first frame's server error.
C10_Witness ==
    /\ MaxCalls >= 2
    /\ Len(sent) >= 2
    /\ calls[1].result.err = "Server"
    /\ calls[2].result.kind = "Ok"
    /\ calls[2].start = calls[1].start + 9 + u_to_int(calls[1].length)
    /\ calls[2].frame[1].stream = sent[2].stream
    /\ calls[2].frame[1].body = sent[2].app
    /\ calls[2].frame[1].warnings # << >>

=============================================================================
